---------------------------- MODULE Spec2Model ----------------------------
(***************************************************************************)
(* A model of manganarrator_video: the pan planner                         *)
(* (ChapterVideoBuilder._make_pan_plan), the chapter build                 *)
(* (build_run / build_chapter), the runner (VideoRunner.run_single_img)    *)
(* and the segment renderer (Timeline.render).                             *)
(*                                                                         *)
(* PlanSpec applies the planner, a pure function, to every input of a      *)
(* bounded grid.  Spec runs one build of one document, step by step,       *)
(* against the document's output folder.                                   *)
(***************************************************************************)
EXTENDS Integers, Sequences, FiniteSets, TLC

VARIABLES
    doc,          \* the OCR record: image_width, image_height, parsed_dialogue
    cfg,          \* the builder's and the config's settings
    pc,           \* where the running call stands
    outcome,      \* how the last call ended: "none", "ok" or the exception raised
    pan_plan,     \* the plan: a sequence of [dlg_id, offset]
    files,        \* the document's video_output folder: file name -> content
    files0,       \* the folder as it was when Timeline.render was entered
    faults,       \* failures of the encoder and of unlink injected so far
    entry,        \* the call that is running: "build_run" or "build_chapter"
    version_arg,  \* build_chapter's version argument
    side_margin_arg, \* build_chapter's side_margin_px argument (<<>> is None)
    audio_files,  \* the audio list, in order
    warned,       \* the [WARN] line about a length mismatch was printed
    out_file,     \* the output file name build_chapter chose
    clips,        \* the FClips of the Timeline
    params,       \* the keyword arguments run_single_img hands to render
    seg_files,    \* render's seg_files
    seg_i         \* render's loop index i (0-based, as in seg_{i}.mp4)

vars == <<doc, cfg, pc, outcome, pan_plan, files, files0, faults, entry,
          version_arg, side_margin_arg, audio_files, warned, out_file, clips,
          params, seg_files, seg_i>>

----------------------------------------------------------------------------
(* Bounds of the planner's input grid *)

MaxDlg == 3
MaxY == 3

(* Bounds of the builds: dialogues of the document, injected failures *)

MaxDocDlg == 2
MaxFaults == 2

----------------------------------------------------------------------------
(* Arithmetic as Python computes it *)

Abs(x) == IF x < 0 THEN -x ELSE x

Max2(a, b) == IF a >= b THEN a ELSE b

Min2(a, b) == IF a <= b THEN a ELSE b

\* int(a / b): the true quotient truncated toward zero (b # 0).  The float
\* quotient of two integers of image size truncates like the exact one.
IntDiv(a, b) ==
    IF (a >= 0) = (b > 0)
    THEN Abs(a) \div Abs(b)
    ELSE -(Abs(a) \div Abs(b))

----------------------------------------------------------------------------
(* File names of the output folder, as the characters they are made of *)

DigitChars == <<"0", "1", "2", "3", "4", "5", "6", "7", "8", "9">>

IsDigit(ch) == \E k \in 1..10 : DigitChars[k] = ch

DigitVal(ch) == (CHOOSE k \in 1..10 : DigitChars[k] = ch) - 1

\* str(n) for n >= 0, as in f"v{ver}.mp4" and f"seg_{i}.mp4"
RECURSIVE Dec(_)
Dec(n) == IF n < 10 THEN <<DigitChars[n + 1]>>
          ELSE Append(Dec(n \div 10), DigitChars[(n % 10) + 1])

\* int(digits)
RECURSIVE IntOf(_)
IntOf(ds) == IF ds = <<>> THEN 0
             ELSE 10 * IntOf(SubSeq(ds, 1, Len(ds) - 1)) + DigitVal(ds[Len(ds)])

FileName(stem, ext) == [stem |-> stem, ext |-> ext]

NoFile == FileName(<<>>, "")

\* out_dir / f"v{ver}.mp4"
VersionName(ver) == FileName(<<"v">> \o Dec(ver), "mp4")

\* out_path.parent / f"seg_{i}.mp4"
SegName(i) == FileName(<<"s", "e", "g", "_">> \o Dec(i), "mp4")

SilencePre == FileName(<<"s", "i", "l", "e", "n", "c", "e", "_", "p", "r", "e">>, "wav")

SilencePost == FileName(<<"s", "i", "l", "e", "n", "c", "e", "_", "p", "o", "s", "t">>, "wav")

\* out_dir.glob("v*.mp4")
GlobVStarMp4(folder) ==
    { f \in DOMAIN folder : f.ext = "mp4" /\ Len(f.stem) >= 1 /\ f.stem[1] = "v" }

\* re.search(r"v(\d+)", f.name): the places where a "v" is followed by a
\* digit.  The extension adds none: its digit follows a "p".
VDigitPlaces(stem) ==
    { k \in 1..(Len(stem) - 1) : stem[k] = "v" /\ IsDigit(stem[k + 1]) }

HasVersion(f) == VDigitPlaces(f.stem) # {}

\* int(m.group(1)): the longest run of digits after the leftmost such "v"
SearchVersion(f) ==
    LET k == CHOOSE a \in VDigitPlaces(f.stem) : \A b \in VDigitPlaces(f.stem) : a <= b
        last == CHOOSE e \in (k + 1)..Len(f.stem) :
                    /\ \A j \in (k + 1)..e : IsDigit(f.stem[j])
                    /\ (e = Len(f.stem) \/ ~IsDigit(f.stem[e + 1]))
    IN  IntOf(SubSeq(f.stem, k + 1, last))

SetMax(S) == CHOOSE m \in S : \A x \in S : x <= m

\* build_chapter: 1 + max([int(m.group(1)) for f in existing
\*                         if (m := re.search(r"v(\d+)", f.name))] or [0])
ChapterVersion(folder) ==
    1 + SetMax({ SearchVersion(f) : f \in { g \in GlobVStarMp4(folder) : HasVersion(g) } }
               \cup {0})

\* build_run: 1 + max([int(re.search(r"v(\d+)", f.name).group(1))
\*                     for f in existing] or [0]); .group fails on None
RunVersionFails(folder) == \E f \in GlobVStarMp4(folder) : ~HasVersion(f)

RunVersion(folder) ==
    1 + SetMax({ SearchVersion(f) : f \in { g \in GlobVStarMp4(folder) : HasVersion(g) } }
               \cup {0})

\* What a file holds: who wrote it (0: it was there before the build, 1: the
\* build wrote it), what it is, and for a video the segments in it.
Content(by, kind, data) == [by |-> by, kind |-> kind, data |-> data]

WriteFile(folder, f, c) == (f :> c) @@ folder

RemoveFiles(folder, gone) == [f \in (DOMAIN folder) \ gone |-> folder[f]]

Range(seq) == { seq[k] : k \in DOMAIN seq }

NoParams == [side_margin_px |-> 0, keep_segments |-> FALSE]

----------------------------------------------------------------------------
(* ChapterVideoBuilder._make_pan_plan *)

\* The filter left out: every dialogue planned
WithBbox_All(dialogue) == dialogue

\* dialogs = [d for d in data["parsed_dialogue"] if d.get("paddle_bbox")]
WithBbox(dialogue) == SelectSeq(dialogue, LAMBDA d : d.has_bbox)

\* The first dialogue given the margin of the later ones
FirstMargin_SafeMargin(c) == c.safe_margin

\* first_margin = int(self.res_h * first_margin_pct), the percentage given
\* in hundredths (for the percentages and heights used here the float
\* product truncates like the exact one)
FirstMargin(c) == IntDiv(c.res_h * c.first_dialog_margin_pct, 100)

\* scaled_h = int(raw_h * self.res_w / raw_w)
ScaledH(d, c) == IntDiv(d.image_height * c.res_w, d.image_width)

\* max_offset = max(0, scaled_h - self.res_h)
MaxOffset(d, c) == Max2(0, ScaledH(d, c) - c.res_h)

\* y_scaled = int(y * self.res_w / raw_w)
YScaled(y, d, c) == IntDiv(y * c.res_w, d.image_width)

\* The branch that keeps the current offset left out: the camera pans back up
RawOffset_PanBack(idx, y_scaled, cur_offset, d, c) ==
    IF idx = 1
    THEN Max2(0, y_scaled - FirstMargin(c))
    ELSE Max2(0, y_scaled - c.safe_margin)

\* The offset the loop body computes for dialogue idx (1-based here, so the
\* code's idx == 0 is idx = 1) before the clamp to max_offset.
RawOffset(idx, y_scaled, cur_offset, d, c) ==
    IF idx = 1
    THEN Max2(0, y_scaled - FirstMargin(c))
    ELSE IF y_scaled < cur_offset
         THEN cur_offset
         ELSE Max2(0, y_scaled - c.safe_margin)

\* The clamp left out
ClampOffset_Missing(offset, d, c) == offset

\* offset = min(offset, max_offset)
ClampOffset(offset, d, c) == Min2(offset, MaxOffset(d, c))

\* One pass of the loop body: the offset recorded for dialogue idx.
StepOffset(idx, y, cur_offset, d, c) ==
    ClampOffset(RawOffset(idx, YScaled(y, d, c), cur_offset, d, c), d, c)

\* The for loop over the dialogues that have a bbox: the plan after the
\* first n of them.
RECURSIVE PlanLoop(_, _, _, _)
PlanLoop(dialogs, n, d, c) ==
    IF n = 0 THEN <<>>
    ELSE LET before == PlanLoop(dialogs, n - 1, d, c)
             cur_offset == IF n = 1 THEN 0 ELSE before[n - 1].offset
             offset == StepOffset(n, dialogs[n].y1, cur_offset, d, c)
         IN  Append(before, [dlg_id |-> dialogs[n].id, offset |-> offset])

\* The call: ZeroDivisionError at the division by raw_w when raw_w = 0,
\* else the plan.
MakePanPlan(d, c) ==
    IF d.image_width = 0
    THEN [err |-> "ZeroDivisionError", plan |-> <<>>]
    ELSE LET dialogs == WithBbox(d.parsed_dialogue)
         IN  [err |-> "ok", plan |-> PlanLoop(dialogs, Len(dialogs), d, c)]

----------------------------------------------------------------------------
(* PlanSpec: the planner applied to every input of the grid *)

\* What one dialogue may carry: a bbox with a y1 of ys, or no bbox (its y1,
\* which the planner never reads, is 0).
DialogueKinds(ys) ==
    { [has_bbox |-> TRUE, y1 |-> y] : y \in ys } \cup { [has_bbox |-> FALSE, y1 |-> 0] }

\* Ordered dialogue lists of up to n entries; the ids are the positions.
DialogueLists(n, ys) ==
    UNION { { [i \in 1..k |-> [id |-> i, has_bbox |-> ks[i].has_bbox, y1 |-> ks[i].y1]] :
                ks \in [1..k -> DialogueKinds(ys)] } : k \in 0..n }

\* Raw image sizes: the valid ones of the grid and the invalid ones
\* (a zero or negative width or height).
PlanImageSizes ==
    ((1..3) \X (1..4)) \cup { <<0, 2>>, <<-1, 2>>, <<2, 0>>, <<2, -1>>, <<0, 0>> }

\* Viewports (resolution), safe margins and first-dialogue margins (in
\* hundredths of the viewport height; 2 is the default 0.02).
PlanViewports == { <<2, 2>>, <<2, 3>> }

PlanSafeMargins == { 0, 1, 2 }

PlanFirstMarginPcts == { 2, 50 }

\* The settings the planner does not read, at their defaults.
PlanCfg(vp, sm, fm) ==
    [res_w |-> vp[1], res_h |-> vp[2], safe_margin |-> sm,
     first_dialog_margin_pct |-> fm,
     has_side_margin_px |-> TRUE, side_margin_px |-> 0,
     has_keep_segments |-> TRUE, keep_segments |-> FALSE,
     pre_roll |-> FALSE, post_roll |-> FALSE]

\* Inputs at the builder's real scale: a 1000x2000 image with dialogues at
\* y1 = 300, the default viewport 1080x1920, safe_margin 200 and first
\* margin 0.02.
ScenarioYs == { 300 }

ScenarioCfg == PlanCfg(<<1080, 1920>>, 200, 2)

InitPlan ==
    /\ \/ /\ \E sz \in PlanImageSizes, dl \in DialogueLists(MaxDlg, -1..MaxY) :
               doc = [image_width |-> sz[1], image_height |-> sz[2],
                      parsed_dialogue |-> dl]
          /\ \E vp \in PlanViewports, sm \in PlanSafeMargins, fm \in PlanFirstMarginPcts :
               cfg = PlanCfg(vp, sm, fm)
       \/ /\ \E dl \in DialogueLists(MaxDlg, ScenarioYs) :
               doc = [image_width |-> 1000, image_height |-> 2000,
                      parsed_dialogue |-> dl]
          /\ cfg = ScenarioCfg
    /\ pc = "idle"
    /\ outcome = "none"
    /\ pan_plan = <<>>
    /\ files = <<>>
    /\ files0 = <<>>
    /\ faults = 0
    /\ entry = "none"
    /\ version_arg = 0
    /\ side_margin_arg = <<>>
    /\ audio_files = <<>>
    /\ warned = FALSE
    /\ out_file = NoFile
    /\ clips = <<>>
    /\ params = NoParams
    /\ seg_files = <<>>
    /\ seg_i = 0

\* pan_plan = self._make_pan_plan(json_file)
CallMakePanPlan ==
    /\ pc = "idle"
    /\ LET r == MakePanPlan(doc, cfg)
       IN  /\ pan_plan' = r.plan
           /\ outcome' = r.err
    /\ pc' = "planned"
    /\ UNCHANGED <<doc, cfg, files, files0, faults, entry, version_arg,
                   side_margin_arg, audio_files, warned, out_file, clips, params,
                   seg_files, seg_i>>

NextPlan == CallMakePanPlan

PlanSpec == InitPlan /\ [][NextPlan]_vars

----------------------------------------------------------------------------
(* The builds: build_run and build_chapter on one document *)

\* The audio file of a dialogue: the latest wav of folder dialogue__{id}
DialogueAudio(id) == [kind |-> "dialogue", dlg_id |-> id]

SilenceAudio(f) == [kind |-> f, dlg_id |-> 0]

\* _collect_paths: one audio file per dialogue, with or without a bbox, in
\* order.  Every dialogue folder is taken to hold a wav, so _latest_audio
\* does not raise.
CollectPaths(d) ==
    [k \in 1..Len(d.parsed_dialogue) |-> DialogueAudio(d.parsed_dialogue[k].id)]

Truthy(m) == m # <<>> /\ m[1] # 0

\* build_run(run_id, side_margin_px=ov) up to its call of build_chapter, for
\* the run's one document: the margin falls back to the config's, then the
\* version is computed from the folder.
BuildRun(ov) ==
    /\ pc = "idle"
    /\ entry' = "build_run"
    /\ IF ~Truthy(ov) /\ ~cfg.has_side_margin_px
       THEN /\ pc' = "done"
            /\ outcome' = "AttributeError: side_margin_px"
            /\ version_arg' = 0
            /\ side_margin_arg' = <<>>
       ELSE IF RunVersionFails(files)
       THEN /\ pc' = "done"
            /\ outcome' = "AttributeError: NoneType.group"
            /\ version_arg' = 0
            /\ side_margin_arg' = <<>>
       ELSE /\ pc' = "chapter"
            /\ outcome' = "none"
            /\ version_arg' = RunVersion(files)
            /\ side_margin_arg' = IF Truthy(ov) THEN ov
                                  ELSE IF cfg.side_margin_px # 0
                                       THEN <<cfg.side_margin_px>> ELSE <<0>>
    /\ UNCHANGED <<doc, cfg, pan_plan, files, files0, faults, audio_files, warned,
                   out_file, clips, params, seg_files, seg_i>>

\* build_chapter(json_file, version, side_margin_px=ov) called directly
BuildChapter(version, ov) ==
    /\ pc = "idle"
    /\ entry' = "build_chapter"
    /\ pc' = "chapter"
    /\ outcome' = "none"
    /\ version_arg' = version
    /\ side_margin_arg' = ov
    /\ UNCHANGED <<doc, cfg, pan_plan, files, files0, faults, audio_files, warned,
                   out_file, clips, params, seg_files, seg_i>>

\* image_path, audio_files = self._collect_paths(json_file)
\* if not audio_files: raise FileNotFoundError
Collect ==
    /\ pc = "chapter"
    /\ audio_files' = CollectPaths(doc)
    /\ IF audio_files' = <<>>
       THEN pc' = "done" /\ outcome' = "FileNotFoundError: No dialogue audio files"
       ELSE pc' = "plan" /\ UNCHANGED outcome
    /\ UNCHANGED <<doc, cfg, pan_plan, files, files0, faults, entry,
                   version_arg, side_margin_arg, warned, out_file, clips, params,
                   seg_files, seg_i>>

\* min_len = min(len(pan_plan), len(audio_files)); both cut to it
AlignLen(plan, audio) == Min2(Len(plan), Len(audio))

\* pan_plan = self._make_pan_plan(json_file), then the alignment of the plan
\* and the audio list when their lengths differ
PlanAndAlign ==
    /\ pc = "plan"
    /\ LET r == MakePanPlan(doc, cfg)
           n == AlignLen(r.plan, audio_files)
       IN  IF r.err # "ok"
           THEN /\ pc' = "done"
                /\ outcome' = r.err
                /\ UNCHANGED <<pan_plan, audio_files, warned>>
           ELSE /\ pc' = "rolls"
                /\ UNCHANGED outcome
                /\ IF Len(r.plan) # Len(audio_files)
                   THEN /\ warned' = TRUE
                        /\ pan_plan' = SubSeq(r.plan, 1, n)
                        /\ audio_files' = SubSeq(audio_files, 1, n)
                   ELSE /\ pan_plan' = r.plan
                        /\ UNCHANGED <<audio_files, warned>>
    /\ UNCHANGED <<doc, cfg, files, files0, faults, entry, version_arg,
                   side_margin_arg, out_file, clips, params, seg_files, seg_i>>

\* if pre_s > 0: the silence file, the audio and the plan entry put in front
WithPreRoll(plan) == <<[dlg_id |-> -1, offset |-> 0]>> \o plan

\* The else branch left out: no entry for an empty plan
WithPostRoll_NoElse(plan) ==
    IF plan # <<>>
    THEN Append(plan, [dlg_id |-> -2, offset |-> plan[Len(plan)].offset])
    ELSE plan

\* if post_s > 0: the plan entry added at the end
WithPostRoll(plan) ==
    IF plan # <<>>
    THEN Append(plan, [dlg_id |-> -2, offset |-> plan[Len(plan)].offset])
    ELSE <<[dlg_id |-> -2, offset |-> 0]>>

\* The optional pre-roll and post-roll: out_dir is made, the silence files
\* are written (ffmpeg -y, taken to succeed), the lists are extended.
AddRolls ==
    /\ pc = "rolls"
    /\ LET a1 == IF cfg.pre_roll THEN <<SilenceAudio("silence_pre")>> \o audio_files
                 ELSE audio_files
           p1 == IF cfg.pre_roll THEN WithPreRoll(pan_plan) ELSE pan_plan
           f1 == IF cfg.pre_roll
                 THEN WriteFile(files, SilencePre, Content(1, "silence", <<>>))
                 ELSE files
       IN  /\ audio_files' = IF cfg.post_roll
                             THEN Append(a1, SilenceAudio("silence_post")) ELSE a1
           /\ pan_plan' = IF cfg.post_roll THEN WithPostRoll(p1) ELSE p1
           /\ files' = IF cfg.post_roll
                       THEN WriteFile(f1, SilencePost, Content(1, "silence", <<>>))
                       ELSE f1
    /\ pc' = "version"
    /\ UNCHANGED <<doc, cfg, outcome, files0, faults, entry, version_arg,
                   side_margin_arg, warned, out_file, clips, params, seg_files, seg_i>>

\* existing = list(out_dir.glob("v*.mp4")); ver = ...; out_file = v{ver}.mp4
PickVersion ==
    /\ pc = "version"
    /\ out_file' = VersionName(ChapterVersion(files))
    /\ pc' = "runner"
    /\ UNCHANGED <<doc, cfg, outcome, pan_plan, files, files0, faults, entry,
                   version_arg, side_margin_arg, audio_files, warned, clips, params,
                   seg_files, seg_i>>

----------------------------------------------------------------------------
(* VideoRunner.run_single_img and Timeline.render *)

\* The plan not read: every clip at the top of the image
BuildClips_NoPlan(audio, plan, c) ==
    [k \in 1..Len(audio) |->
        [audio |-> audio[k],
         offset_y |-> 0,
         viewport_w |-> c.res_w,
         viewport_h |-> c.res_h]]

\* _build_clips: one FClip per audio file; offset_y is the plan's offset at
\* the same index, 0 when the plan has no such entry.
BuildClips(audio, plan, c) ==
    [k \in 1..Len(audio) |->
        [audio |-> audio[k],
         offset_y |-> IF plan # <<>> /\ k <= Len(plan) THEN plan[k].offset ELSE 0,
         viewport_w |-> c.res_w,
         viewport_h |-> c.res_h]]

\* run_single_img as build_chapter and src/main.py call it (side_margin_px
\* and keep_segments not given): the clips, Timeline(clips), the params read from the config,
\* up to the call of render.
RunSingleImg ==
    /\ pc = "runner"
    /\ clips' = BuildClips(audio_files, pan_plan, cfg)
    /\ IF clips' = <<>>
       THEN /\ pc' = "done"
            /\ outcome' = "ValueError: Timeline requires at least one clip"
            /\ UNCHANGED params
       ELSE IF ~cfg.has_side_margin_px \/ ~cfg.has_keep_segments
       THEN /\ pc' = "done"
            /\ outcome' = "AttributeError: config"
            /\ UNCHANGED params
       ELSE /\ pc' = "render"
            /\ params' = [side_margin_px |-> cfg.side_margin_px,
                          keep_segments |-> cfg.keep_segments]
            /\ UNCHANGED outcome
    /\ UNCHANGED <<doc, cfg, pan_plan, files, files0, faults, entry,
                   version_arg, side_margin_arg, audio_files, warned, out_file,
                   seg_files, seg_i>>

\* full_w = int(first.viewport_w or 1080); full_h = int(first.viewport_h or 1920)
FullW(cl) == IF cl[1].viewport_w # 0 THEN cl[1].viewport_w ELSE 1080

FullH(cl) == IF cl[1].viewport_h # 0 THEN cl[1].viewport_h ELSE 1920

\* side_margin_px = side_margin_px if side_margin_px else 0
\* inner_w = full_w - (2 * side_margin_px)
InnerW(cl, p) == FullW(cl) - 2 * p.side_margin_px

\* The check with < for <=: an inner width of 0 passes
InnerWidthBad_Strict(cl, p) == InnerW(cl, p) < 0

\* if inner_w <= 0: raise ValueError
InnerWidthBad(cl, p) == InnerW(cl, p) <= 0

\* The height of the image after .filter("scale", inner_w, -1): the encoder
\* keeps the aspect ratio; rounded down here.  The image file has the size
\* the OCR record states.
RenderScaledH(d, inner_w) == (d.image_height * inner_w) \div d.image_width

\* render up to its try block: the inner width is checked before any segment
\* is built.
RenderBegin ==
    /\ pc = "render"
    /\ files0' = files
    /\ IF InnerWidthBad(clips, params)
       THEN /\ pc' = "done"
            /\ outcome' = "ValueError: side_margin_px too large"
       ELSE /\ pc' = "encode"
            /\ UNCHANGED outcome
    /\ seg_files' = <<>>
    /\ seg_i' = 0
    /\ UNCHANGED <<doc, cfg, pan_plan, files, faults, entry, version_arg,
                   side_margin_arg, audio_files, warned, out_file, clips, params>>

\* The segment the loop body encodes for clip i (0-based): the crop window
\* (inner_w x vh at y = oy) on the image scaled to inner_w, and the audio.
Segment(i, cl, p, d) ==
    LET clip == cl[i + 1]
        vh == IF clip.viewport_h # 0 THEN clip.viewport_h ELSE FullH(cl)
    IN  [index |-> i,
         audio |-> clip.audio,
         crop_y |-> clip.offset_y,
         crop_h |-> vh,
         crop_w |-> InnerW(cl, p),
         pad |-> p.side_margin_px > 0,
         scaled_h |-> RenderScaledH(d, InnerW(cl, p))]

\* The encode of seg_{i}.mp4.  It succeeds, or ffmpeg fails: a failed run
\* leaves the file it had opened behind, or leaves nothing.  seg_files gets
\* the file only after a successful run (the duration probe between the two
\* only prints).
EncodeSegment ==
    /\ pc = "encode"
    /\ \/ /\ files' = WriteFile(files, SegName(seg_i),
                         Content(1, "segment", <<Segment(seg_i, clips, params, doc)>>))
          /\ seg_files' = Append(seg_files, SegName(seg_i))
          /\ pc' = "concat"
          /\ UNCHANGED <<outcome, faults>>
       \/ /\ faults < MaxFaults
          /\ faults' = faults + 1
          /\ files' = WriteFile(files, SegName(seg_i), Content(1, "partial", <<>>))
          /\ outcome' = "ffmpeg.Error"
          /\ pc' = "cleanup"
          /\ UNCHANGED seg_files
       \/ /\ faults < MaxFaults
          /\ faults' = faults + 1
          /\ outcome' = "ffmpeg.Error"
          /\ pc' = "cleanup"
          /\ UNCHANGED <<files, seg_files>>
    /\ UNCHANGED <<doc, cfg, pan_plan, files0, entry, version_arg,
                   side_margin_arg, audio_files, warned, out_file, clips, params,
                   seg_i>>

\* The segments in the files of seg_files, in order
RECURSIVE ConcatData(_, _)
ConcatData(folder, segs) ==
    IF segs = <<>> THEN <<>>
    ELSE folder[segs[1]].data \o ConcatData(folder, Tail(segs))

\* The concat of all of seg_files into out_path, run after every segment.
\* A failed run leaves a partial out_path, or leaves it as it was.
ConcatSegments ==
    /\ pc = "concat"
    /\ \/ /\ files' = WriteFile(files, out_file,
                         Content(1, "final", ConcatData(files, seg_files)))
          /\ IF seg_i + 1 < Len(clips)
             THEN pc' = "encode" /\ seg_i' = seg_i + 1
             ELSE pc' = "cleanup" /\ UNCHANGED seg_i
          /\ UNCHANGED <<outcome, faults>>
       \/ /\ faults < MaxFaults
          /\ faults' = faults + 1
          /\ files' = WriteFile(files, out_file, Content(1, "partial", <<>>))
          /\ outcome' = "ffmpeg.Error"
          /\ pc' = "cleanup"
          /\ UNCHANGED seg_i
       \/ /\ faults < MaxFaults
          /\ faults' = faults + 1
          /\ outcome' = "ffmpeg.Error"
          /\ pc' = "cleanup"
          /\ UNCHANGED <<files, seg_i>>
    /\ UNCHANGED <<doc, cfg, pan_plan, files0, entry, version_arg,
                   side_margin_arg, audio_files, warned, out_file, clips, params,
                   seg_files>>

\* The files the cleanup loops try to unlink: those of seg_files, unless
\* keep_segments.
CleanupTargets(segs, p) == IF p.keep_segments THEN {} ELSE Range(segs)

\* The unlink's exception let out of the cleanup loop
CleanupOutcome_Unguarded(o, failing) ==
    IF failing # {} THEN "OSError" ELSE IF o = "none" THEN "ok" ELSE o

\* How render ends after the cleanup loops, whose unlinks stand in
\* try/except pass: return str(out_path) on the success path, the bare raise
\* of the caught error in the except block.  failing is the set of files
\* whose unlink failed.
CleanupOutcome(o, failing) == IF o = "none" THEN "ok" ELSE o

\* The cleanup, on the success path and in the except block alike: every
\* unlink is tried, one that fails is passed over.  Then render returns
\* out_path or re-raises.
RenderCleanup ==
    /\ pc = "cleanup"
    /\ \E failing \in SUBSET CleanupTargets(seg_files, params) :
         /\ faults + Cardinality(failing) <= MaxFaults
         /\ faults' = faults + Cardinality(failing)
         /\ files' = RemoveFiles(files, CleanupTargets(seg_files, params) \ failing)
         /\ outcome' = CleanupOutcome(outcome, failing)
    /\ pc' = "done"
    /\ UNCHANGED <<doc, cfg, pan_plan, files0, entry, version_arg,
                   side_margin_arg, audio_files, warned, out_file, clips, params,
                   seg_files, seg_i>>

----------------------------------------------------------------------------
(* Spec: one build of one document, from any of the folders *)

DocImageSizes == { <<1000, 2000>>, <<1080, 5000>>, <<0, 2000>> }

DocYs == { 1100, 3000 }

\* The builder's defaults (resolution=(1080,1920), safe_margin=200), the
\* config's first_dialog_margin_pct default, and the config's other settings.
DocCfgs ==
    { [res_w |-> 1080, res_h |-> 1920, safe_margin |-> 200,
       first_dialog_margin_pct |-> 2,
       has_side_margin_px |-> TRUE, side_margin_px |-> sm,
       has_keep_segments |-> TRUE, keep_segments |-> ks,
       pre_roll |-> pre, post_roll |-> post] :
        sm \in {0, 100, 540}, ks \in BOOLEAN, pre \in BOOLEAN, post \in BOOLEAN }
    \cup
    \* a config object without the side_margin_px or the keep_segments
    \* attribute, as VideoConfig.__init__ leaves it
    { [res_w |-> 1080, res_h |-> 1920, safe_margin |-> 200,
       first_dialog_margin_pct |-> 2,
       has_side_margin_px |-> hs, side_margin_px |-> 0,
       has_keep_segments |-> FALSE, keep_segments |-> FALSE,
       pre_roll |-> FALSE, post_roll |-> FALSE] : hs \in BOOLEAN }

Existing(names) == [f \in names |-> Content(0, "existing", <<>>)]

Video == FileName(<<"v", "i", "d", "e", "o">>, "mp4")

\* Folders a build may find: empty, left by earlier builds (outputs, a
\* segment and a silence file that stayed behind), and holding a file that
\* matches v*.mp4 without a version number.
InitialFolders ==
    { Existing({}),
      Existing({VersionName(1), SegName(0), SilencePre}),
      Existing({VersionName(2), VersionName(9)}),
      Existing({Video}),
      Existing({VersionName(3), Video}) }

SideMarginArgs == { <<>>, <<100>> }

VersionArgs == { 1 }

Init ==
    /\ \E sz \in DocImageSizes, dl \in DialogueLists(MaxDocDlg, DocYs) :
         doc = [image_width |-> sz[1], image_height |-> sz[2], parsed_dialogue |-> dl]
    /\ cfg \in DocCfgs
    /\ files \in InitialFolders
    /\ files0 = files
    /\ pc = "idle"
    /\ outcome = "none"
    /\ pan_plan = <<>>
    /\ faults = 0
    /\ entry = "none"
    /\ version_arg = 0
    /\ side_margin_arg = <<>>
    /\ audio_files = <<>>
    /\ warned = FALSE
    /\ out_file = NoFile
    /\ clips = <<>>
    /\ params = NoParams
    /\ seg_files = <<>>
    /\ seg_i = 0

Next ==
    \/ \E ov \in SideMarginArgs : BuildRun(ov)
    \/ \E v \in VersionArgs, ov \in SideMarginArgs : BuildChapter(v, ov)
    \/ Collect
    \/ PlanAndAlign
    \/ AddRolls
    \/ PickVersion
    \/ RunSingleImg
    \/ RenderBegin
    \/ EncodeSegment
    \/ ConcatSegments
    \/ RenderCleanup

Spec == Init /\ [][Next]_vars

----------------------------------------------------------------------------
(* RunnerSpec: run_single_img called directly, as src/main.py does, with any
   audio list and any plan, or none *)

\* out_filename: str = "final.mp4"
Final == FileName(<<"f", "i", "n", "a", "l">>, "mp4")

RunnerOffsets == { 0, 240 }

\* The audio_files argument: up to n files, each its own
RunnerAudioLists(n) == { [k \in 1..m |-> DialogueAudio(k)] : m \in 0..n }

\* The pan_plan argument: up to n entries, <<>> also standing for None
RunnerPlans(n) ==
    UNION { { [k \in 1..m |-> [dlg_id |-> k, offset |-> os[k]]] :
                os \in [1..m -> RunnerOffsets] } : m \in 0..n }

InitRunner ==
    /\ \E sz \in { <<1000, 2000>>, <<1080, 5000>> } :
         doc = [image_width |-> sz[1], image_height |-> sz[2], parsed_dialogue |-> <<>>]
    /\ cfg \in DocCfgs
    /\ files \in InitialFolders
    /\ files0 = files
    /\ audio_files \in RunnerAudioLists(MaxDocDlg)
    /\ pan_plan \in RunnerPlans(MaxDocDlg)
    /\ out_file = Final
    /\ pc = "runner"
    /\ entry = "run_single_img"
    /\ outcome = "none"
    /\ faults = 0
    /\ version_arg = 0
    /\ side_margin_arg = <<>>
    /\ warned = FALSE
    /\ clips = <<>>
    /\ params = NoParams
    /\ seg_files = <<>>
    /\ seg_i = 0

NextRunner ==
    \/ RunSingleImg
    \/ RenderBegin
    \/ EncodeSegment
    \/ ConcatSegments
    \/ RenderCleanup

RunnerSpec == InitRunner /\ [][NextRunner]_vars

----------------------------------------------------------------------------
(* The planner's claims, under PlanSpec *)

Planned == pc = "planned"

ValidGeometry == doc.image_width > 0 /\ doc.image_height > 0

BboxDialogs == WithBbox(doc.parsed_dialogue)

\* C1: for valid geometry and margins >= 0 the offsets of the returned plan
\* never decrease from one entry to the next.  The code breaks it: a dialogue
\* at or below the current offset, but less than safe_margin below it, is
\* given y_scaled - safe_margin, which is above the current offset.
C1_OffsetsNonDecreasing ==
    (Planned /\ ValidGeometry /\ \A k \in DOMAIN BboxDialogs : BboxDialogs[k].y1 >= 0)
        => \A k \in 1..(Len(pan_plan) - 1) : pan_plan[k].offset <= pan_plan[k + 1].offset

\* max(0, floor(raw_h * viewport_w / raw_w) - viewport_h), stated apart from
\* the code's own computation
ClaimedMaxOffset ==
    LET scaled_h == (doc.image_height * cfg.res_w) \div doc.image_width
    IN  IF scaled_h - cfg.res_h > 0 THEN scaled_h - cfg.res_h ELSE 0

\* C2: every entry of the returned plan has 0 <= offset <= max_offset, with
\* max_offset = max(0, floor(raw_h * viewport_w / raw_w) - viewport_h), for
\* every y1 (negative, or beyond the image height) and every margin >= 0.
C2_OffsetsWithinBounds ==
    (Planned /\ doc.image_width > 0)
        => \A k \in DOMAIN pan_plan :
              0 <= pan_plan[k].offset /\ pan_plan[k].offset <= ClaimedMaxOffset

\* C2's case: a plan of two entries or more on an image taller than the
\* viewport, with a y1 beyond the image height whose entry was clamped down
\* to max_offset, and a negative y1.
C2_Witness ==
    /\ Planned
    /\ doc.image_width > 0
    /\ ClaimedMaxOffset > 0
    /\ Len(pan_plan) >= 2
    /\ \E k \in DOMAIN BboxDialogs :
          /\ BboxDialogs[k].y1 > doc.image_height
          /\ YScaled(BboxDialogs[k].y1, doc, cfg) - cfg.safe_margin > ClaimedMaxOffset
          /\ pan_plan[k].offset = ClaimedMaxOffset
    /\ \E k \in DOMAIN BboxDialogs : BboxDialogs[k].y1 < 0

\* C7: with a raw width or height <= 0 the planner ends in an error and
\* returns no plan (here: for a document that has a dialogue with a bbox).
\* The code checks neither: only raw_w = 0 fails (with ZeroDivisionError); a
\* negative width or a height <= 0 returns a plan.
C7_InvalidGeometryFails ==
    (Planned /\ ~ValidGeometry /\ BboxDialogs # <<>>)
        => (outcome # "ok" /\ pan_plan = <<>>)

\* The ids of the input dialogues that have a bounding box, in reading order
RECURSIVE IdsWithBbox(_)
IdsWithBbox(dialogue) ==
    IF dialogue = <<>> THEN <<>>
    ELSE (IF dialogue[1].has_bbox THEN <<dialogue[1].id>> ELSE <<>>)
             \o IdsWithBbox(Tail(dialogue))

\* C18: the planner returns one entry for each dialogue that has a bounding
\* box and none for the others, in reading order: the dlg_id values of the
\* plan are the ids of the input dialogues restricted to those with a bbox.
C18_OneEntryPerBboxDialogue ==
    (Planned /\ outcome = "ok")
        => [k \in 1..Len(pan_plan) |-> pan_plan[k].dlg_id]
               = IdsWithBbox(doc.parsed_dialogue)

\* C18's case: a plan of two entries for three dialogues, the one without a
\* bbox standing between the two that have one.
C18_Witness ==
    /\ Planned
    /\ outcome = "ok"
    /\ Len(doc.parsed_dialogue) = 3
    /\ doc.parsed_dialogue[1].has_bbox
    /\ ~doc.parsed_dialogue[2].has_bbox
    /\ doc.parsed_dialogue[3].has_bbox
    /\ Len(pan_plan) = 2
    /\ pan_plan[2].dlg_id = 3

----------------------------------------------------------------------------
(* The claims about a build, under Spec *)

IsSegName(f) ==
    /\ f.ext = "mp4"
    /\ Len(f.stem) >= 5
    /\ SubSeq(f.stem, 1, 4) = <<"s", "e", "g", "_">>

\* The segments this build's render has written and that are in the folder
WrittenSegments ==
    UNION { Range(files[f].data) :
              f \in { g \in DOMAIN files : files[g].by = 1 /\ files[g].kind = "segment" } }

\* C3: every segment render builds from an entry of the planner's plan crops
\* inside the image as render scales it: crop_y + viewport_h <= the scaled
\* height (here: for the segments of dialogues, on an image that is at least
\* as tall as the viewport after the scaling).  The code breaks it: the
\* planner scales and clamps at the full viewport width, render scales the
\* image to the narrower inner width.
C3_CropInsideScaledImage ==
    \A seg \in WrittenSegments :
        (seg.audio.kind = "dialogue" /\ seg.scaled_h >= seg.crop_h)
            => seg.crop_y + seg.crop_h <= seg.scaled_h

\* C4: at the call of run_single_img every entry of a dialogue (dlg_id > 0;
\* -1 and -2 are the silence entries) stands at the index of that dialogue's
\* audio file.  The code breaks it: the plan skips the dialogues without a
\* bbox, the audio list does not, and both are cut to the same length.
C4_AudioMatchesPlan ==
    pc = "runner"
        => \A k \in DOMAIN pan_plan :
              pan_plan[k].dlg_id > 0
                  => (k <= Len(audio_files)
                      /\ audio_files[k] = DialogueAudio(pan_plan[k].dlg_id))

\* How many entries the rolls add
RollCount == (IF cfg.pre_roll THEN 1 ELSE 0) + (IF cfg.post_roll THEN 1 ELSE 0)

PlannerLen == Len(WithBbox(doc.parsed_dialogue))

AudioLen == Len(doc.parsed_dialogue)

ShorterLen == IF PlannerLen <= AudioLen THEN PlannerLen ELSE AudioLen

\* C5: when the planner's plan and the collected audio list differ in length
\* the warning is printed and both are cut to the shorter length (the first
\* entries of each); the plan and the audio list handed to run_single_img
\* have the same length, the rolls included.
C5_PlanAndAudioSameLength ==
    /\ pc = "rolls"
         => /\ warned = (PlannerLen # AudioLen)
            /\ Len(pan_plan) = ShorterLen
            /\ Len(audio_files) = ShorterLen
            /\ pan_plan = SubSeq(MakePanPlan(doc, cfg).plan, 1, ShorterLen)
            /\ audio_files = SubSeq(CollectPaths(doc), 1, ShorterLen)
    /\ pc = "runner"
         => /\ Len(pan_plan) = Len(audio_files)
            /\ Len(pan_plan) = ShorterLen + RollCount
            /\ warned = (PlannerLen # AudioLen)

\* C5's case: the lengths differed (one dialogue of two has no bbox), the
\* warning was printed, both rolls were added, and run_single_img is called
\* with three entries and three audio files.
C5_Witness ==
    /\ pc = "runner"
    /\ warned
    /\ PlannerLen = 1 /\ AudioLen = 2
    /\ cfg.pre_roll /\ cfg.post_roll
    /\ Len(pan_plan) = 3 /\ Len(audio_files) = 3

NoBboxDocument == doc.parsed_dialogue # <<>> /\ PlannerLen = 0

InRender == pc \in {"render", "encode", "concat", "cleanup"}

\* C6: a document whose dialogues all lack a bbox (valid geometry) is
\* detected: the build neither goes on to render nor ends in the error of the
\* Timeline construction.  The code breaks it: the empty plan cuts the audio
\* list to nothing, and the build ends in Timeline's ValueError, or, with a
\* roll, renders the silence alone.
C6_NoBboxDetected ==
    (NoBboxDocument /\ doc.image_width > 0)
        => /\ ~InRender
           /\ outcome \notin {"ValueError: Timeline requires at least one clip",
                              "ok", "ffmpeg.Error"}

\* Render was entered, and has ended or is running
RenderEnded ==
    pc = "done" /\ outcome \in {"ok", "ffmpeg.Error", "ValueError: side_margin_px too large"}

RenderCalled == RenderEnded \/ pc \in {"encode", "concat", "cleanup"}

\* The files the render call has created or changed, and those it removed
ChangedByRender ==
    { f \in DOMAIN files : f \notin DOMAIN files0 \/ files[f] # files0[f] }
        \cup ((DOMAIN files0) \ (DOMAIN files))

\* C8: when viewport_w - 2 * side_margin <= 0, render ends in its ValueError
\* before any segment is encoded: the call never reaches an encode and leaves
\* every file of the folder as it found it.
C8_BadInnerWidthFailsFirst ==
    (RenderCalled /\ clips[1].viewport_w - 2 * params.side_margin_px <= 0)
        => /\ pc = "done"
           /\ outcome = "ValueError: side_margin_px too large"
           /\ ChangedByRender = {}
           /\ seg_files = <<>>

\* C8's case: render was called with side margin 540 on a viewport 1080 wide
\* (inner width 0) for a plan of two dialogues, and has ended.
C8_Witness ==
    /\ pc = "done"
    /\ outcome = "ValueError: side_margin_px too large"
    /\ params.side_margin_px = 540
    /\ Len(clips) >= 2
    /\ clips[1].viewport_w = 1080

\* The files v{n}.mp4 that were in the folder before the build, by number
ExistingVersions ==
    { n \in 1..99 : VersionName(n) \in DOMAIN files /\ files[VersionName(n)].by = 0 }

ClaimedVersion == 1 + SetMax(ExistingVersions \cup {0})

\* C9: whatever the folder holds, a file matching v*.mp4 without a version
\* number included, both version computations yield 1 + the highest existing
\* version, and the output file is named after it.  The code breaks it:
\* build_run calls .group on the failed search of such a file and ends in
\* AttributeError before any build.
C9_NextVersion ==
    /\ outcome # "AttributeError: NoneType.group"
    /\ (entry = "build_run" /\ pc # "done") => version_arg = ClaimedVersion
    /\ out_file # NoFile => out_file = VersionName(ClaimedVersion)

\* C10: with keep_segments false, once render has returned or raised, no
\* seg_i.mp4 the call wrote is left in the folder (here: when no unlink
\* failed, that is, when the only failure injected is the encoder's).  The
\* code breaks it: the file of the segment whose encode failed is not in
\* seg_files, so the cleanup never unlinks it.
C10_NoSegmentLeft ==
    (/\ pc = "done"
     /\ outcome \in {"ok", "ffmpeg.Error"}
     /\ ~params.keep_segments
     /\ faults = (IF outcome = "ffmpeg.Error" THEN 1 ELSE 0))
        => \A f \in DOMAIN files : IsSegName(f) => f \notin ChangedByRender

\* Every clip was encoded and the last concat succeeded: the output file
\* this build wrote holds as many segments as there are clips
AllEncoded ==
    /\ out_file \in DOMAIN files
    /\ files[out_file].by = 1
    /\ files[out_file].kind = "final"
    /\ Len(files[out_file].data) = Len(clips)

\* A segment file this build wrote is still in the folder
SegmentLeft ==
    \E f \in DOMAIN files : files[f].by = 1 /\ files[f].kind = "segment"

\* render went past its inner-width check into the try block: the clips were
\* built, the config had the attributes run_single_img reads, and the inner
\* width is positive
RenderLoopEntered ==
    /\ clips # <<>>
    /\ cfg.has_side_margin_px /\ cfg.has_keep_segments
    /\ clips[1].viewport_w - 2 * params.side_margin_px > 0

\* C11: a failed unlink in the cleanup never changes how render ends: when
\* every encode and concat succeeded the call returns the output path, when
\* one failed the call (and with it run_single_img and build_chapter) raises
\* that ffmpeg error, whichever unlinks failed.
C11_CleanupFailureIgnored ==
    (pc = "done" /\ RenderLoopEntered) => outcome = (IF AllEncoded THEN "ok" ELSE "ffmpeg.Error")

\* C11's case: the encode of a later segment failed, then the unlink of an
\* earlier segment's file failed as well (keep_segments false), and the call
\* ended in the ffmpeg error.
C11_Witness ==
    /\ pc = "done"
    /\ outcome = "ffmpeg.Error"
    /\ ~params.keep_segments
    /\ seg_i >= 1
    /\ faults = 2
    /\ SegmentLeft

\* The plan is final: the rolls were added
RollsAdded == pc \in {"version", "runner"}

\* C12: with the pre-roll the final plan starts with a synthetic entry of
\* offset 0; with the post-roll it ends with a synthetic entry whose offset is
\* that of the entry immediately before it; the entries between the two are
\* the planner's, unchanged and in order.  The code breaks the second part:
\* the empty plan of a document without any bbox reaches the rolls, and the
\* post-roll entry of offset 0 is then the plan's only entry, with no entry
\* before it.
C12_RollEntries ==
    RollsAdded =>
        LET n == Len(pan_plan)
            lo == IF cfg.pre_roll THEN 2 ELSE 1
            hi == IF cfg.post_roll THEN n - 1 ELSE n
        IN  /\ cfg.pre_roll =>
                  (n >= 1 /\ pan_plan[1].dlg_id = -1 /\ pan_plan[1].offset = 0)
            /\ cfg.post_roll =>
                  (/\ n >= 2
                   /\ pan_plan[n].dlg_id = -2
                   /\ pan_plan[n].offset = pan_plan[n - 1].offset)
            /\ SubSeq(pan_plan, lo, hi) = MakePanPlan(doc, cfg).plan

\* The same for the builds whose planner returned an entry
C12_RollEntriesOfNonEmptyPlan ==
    PlannerLen > 0 => C12_RollEntries

\* The crop window of clip i (0-based) reaches below the image as render
\* scales it, on an image that is at least as tall as the viewport
CropOutOfBounds(i) ==
    LET seg == Segment(i, clips, params, doc)
    IN  seg.scaled_h >= seg.crop_h /\ seg.crop_y + seg.crop_h > seg.scaled_h

\* C13: render checks the crop window: with a clip whose offset + viewport_h
\* exceeds the scaled image height the call ends in an OutOfBounds error
\* instead of issuing the crop (here: when no ffmpeg run and no unlink
\* failed).  The code breaks it: render has no such check, every clip's crop
\* goes to the encoder and the call returns the output path.
C13_OutOfBoundsCropRejected ==
    (/\ pc = "done"
     /\ RenderLoopEntered
     /\ faults = 0
     /\ \E i \in 0..(Len(clips) - 1) : CropOutOfBounds(i))
        => outcome = "OutOfBounds"

\* The worked scenario: raw image 1000x2000, viewport 1080x1920, safe_margin
\* 200, first margin 0.02, and a single dialogue with a bbox, at y1 = 300
WorkedScenario ==
    /\ doc.image_width = 1000 /\ doc.image_height = 2000
    /\ cfg.res_w = 1080 /\ cfg.res_h = 1920
    /\ cfg.safe_margin = 200 /\ cfg.first_dialog_margin_pct = 2
    /\ Len(BboxDialogs) = 1
    /\ BboxDialogs[1].y1 = 300

\* C14: in the worked scenario first_margin = 38, scaled_h = 2160,
\* max_offset = 240, y_scaled = 324, the offset before the clamp is 286 and
\* the planner returns the single offset 240.
C14_WorkedScenario ==
    (Planned /\ WorkedScenario)
        => /\ FirstMargin(cfg) = 38
           /\ ScaledH(doc, cfg) = 2160
           /\ MaxOffset(doc, cfg) = 240
           /\ YScaled(300, doc, cfg) = 324
           /\ RawOffset(1, 324, 0, doc, cfg) = 286
           /\ outcome = "ok"
           /\ pan_plan = <<[dlg_id |-> BboxDialogs[1].id, offset |-> 240]>>

\* C14's case: the planner was called on the worked scenario, the dialogue
\* being the document's only one, and returned one entry.
C14_Witness ==
    /\ Planned
    /\ WorkedScenario
    /\ Len(doc.parsed_dialogue) = 1
    /\ Len(pan_plan) = 1

\* The running offset when the loop reaches the k-th dialogue with a bbox:
\* the offset recorded for the one before it
RunningOffset(k) == pan_plan[k - 1].offset

\* C15: for every dialogue after the first whose scaled y1 is strictly less
\* than the running offset, the entry recorded is exactly the running offset,
\* the clamp included: that dialogue does not decrease the running offset.
C15_OffsetKeptForVisibleDialogue ==
    (Planned /\ outcome = "ok")
        => \A k \in 2..Len(pan_plan) :
              YScaled(BboxDialogs[k].y1, doc, cfg) < RunningOffset(k)
                  => pan_plan[k].offset = RunningOffset(k)

\* C15's case: a plan whose k-th dialogue (k >= 2) lies above a running
\* offset that is positive, and whose own target y_scaled - safe_margin
\* differs from the running offset.
C15_Witness ==
    /\ Planned
    /\ outcome = "ok"
    /\ ValidGeometry
    /\ \E k \in 2..Len(pan_plan) :
          /\ RunningOffset(k) > 0
          /\ BboxDialogs[k].y1 >= 0
          /\ YScaled(BboxDialogs[k].y1, doc, cfg) < RunningOffset(k)
          /\ YScaled(BboxDialogs[k].y1, doc, cfg) - cfg.safe_margin # RunningOffset(k)
          /\ pan_plan[k].offset = RunningOffset(k)

\* C17: a side_margin_px override given to build_run or build_chapter is the
\* side margin render uses: the inner width of every segment is the viewport
\* width less twice the override, and a segment is padded exactly when the
\* override is positive (here: for a document whose dialogues all have a
\* bbox).  The code breaks it: build_chapter takes the argument and never
\* hands it to run_single_img, which reads the config's value.
C17_SideMarginOverrideUsed ==
    (RenderCalled /\ Truthy(side_margin_arg) /\ PlannerLen = AudioLen)
        => /\ params.side_margin_px = side_margin_arg[1]
           /\ \A seg \in WrittenSegments :
                 /\ seg.crop_w = cfg.res_w - 2 * side_margin_arg[1]
                 /\ seg.pad = (side_margin_arg[1] > 0)

----------------------------------------------------------------------------
(* The claims about run_single_img and render, under RunnerSpec *)

\* The video at out_path, when this call wrote it whole
FinalData ==
    IF out_file \in DOMAIN files /\ files[out_file].by = 1
          /\ files[out_file].kind = "final"
    THEN files[out_file].data
    ELSE <<>>

\* pan_plan[i].offset, 0 when the plan has no entry i (i 0-based)
ClaimedCropY(i) == IF i + 1 <= Len(pan_plan) THEN pan_plan[i + 1].offset ELSE 0

\* seg is segment i: cropped at the plan's offset i, carrying audio file i
IsSegmentOf(seg, i) ==
    /\ seg.index = i
    /\ seg.audio = audio_files[i + 1]
    /\ seg.crop_y = ClaimedCropY(i)

\* C16: run_single_img and render produce one segment per audio file, in list
\* order, segment i cropped at pan_plan[i].offset (0 when the plan has no
\* entry i) and carrying audio file i.  After the concat that follows segment
\* j the output holds the segments 0..j in order, and the output of a call
\* that returned holds the segments 0..n-1.
C16_OneSegmentPerAudioInOrder ==
    /\ (pc = "encode" /\ seg_i > 0)
          => /\ Len(FinalData) = seg_i
             /\ \A k \in 1..seg_i : IsSegmentOf(FinalData[k], k - 1)
    /\ (pc = "done" /\ outcome = "ok")
          => /\ Len(FinalData) = Len(audio_files)
             /\ \A k \in 1..Len(audio_files) : IsSegmentOf(FinalData[k], k - 1)

\* C16's case: a call with two audio files or more and a plan that is
\* shorter than the audio list and has a positive offset has returned.
C16_Witness ==
    /\ pc = "done"
    /\ outcome = "ok"
    /\ Len(audio_files) >= 2
    /\ pan_plan # <<>>
    /\ Len(pan_plan) < Len(audio_files)
    /\ pan_plan[1].offset > 0
    /\ Len(FinalData) = Len(audio_files)

====
